---- MODULE Spec2Model ----
(***************************************************************************)
(* Model of the esp32_automation control core:                             *)
(*   - components/sensors/control/sensor_control.c : the debounced         *)
(*     threshold control with its dose and wait timers (SpecControl);      *)
(*   - components/grow_manager/grow_manager.c : the grow-cycle             *)
(*     orchestrator, its persisted flags and the tasks it suspends and     *)
(*     resumes (SpecGrow).                                                 *)
(* Float quantities are modelled as integers (readings, targets and        *)
(* margins in sensor units, times in seconds, the dose percentage in       *)
(* hundredths).                                                            *)
(***************************************************************************)
EXTENDS Integers, Sequences, FiniteSets

\* ------------------------------------------------------------------ bounds

\* Largest reading handed to control_check_sensor; readings are 1..MaxReading.
MaxReading == 6

\* Largest temperature the sensor delivers; temperatures are 1..MaxTemp.
MaxTemp == 2

\* The clock runs from 0 to MaxTime seconds.
MaxTime == 12

\* ---------------------------------------------------------- program constants

\* Debounce threshold (sensor_control.h, not among the sources; the design
\* document gives 5).
NUM_CHECKS == 5

\* Sampling period in milliseconds (sync_sensors.h, not among the sources).
SENSOR_MEASUREMENT_PERIOD == 10000

\* ------------------------------------------------------- configuration sets

Readings == 1..MaxReading
Targets == {4}
NightTargets == {3}
Margins == {1}
DoseTimes == {10}
WaitTimes == {30, 60}
\* dose_percentage values, in hundredths.
DosePercentages == {50, 100}
Temps == 1..MaxTemp

VARIABLES
  control,      \* struct sensor_control: the one control instance modelled
  is_day,       \* rtc.h: process-wide day/night indicator
  lastOp,       \* the operation that ran last
  lastArg,      \* the reading of the last operation, if it was control_check_sensor,
                \* else 0 (no reading)
  ret,          \* the value it returned (0 after any other operation)
  runLen,       \* length of the current run of out-of-range check calls
  runDirs,      \* directions (-1 under, 1 over) of the samples of that run
  allInRange,   \* every reading since the last init was within the margin
  prevIndex,    \* check_index as that call found it
  is_settings_received,  \* grow_manager: settings flag in memory
  is_grow_active,        \* grow_manager: grow flag in memory
  nvs,                   \* persisted flags: per key the stored uint8, {} when absent
  task_state,            \* scheduler state of the seven owned tasks
  is_ph_activated,       \* pH actuator "activated" flag
  is_ec_activated,       \* EC actuator "activated" flag
  calls,                 \* external calls issued by the last orchestrator operation
  gLastOp,               \* the orchestrator operation that ran last
  gPrev,                 \* the orchestrator's state as that operation found it
  gInited,               \* init_grow_manager has run since the last boot
  pc,                    \* position of each orchestrator call in progress (SpecGrowSteps)
  phase,                 \* SpecDoser: where the dose cycle of the last request stands
  cycleRun,              \* SpecDoser: consecutive out-of-range checks since a completed cycle
  temp,                  \* main.c: the shared temperature reading
  temp_semaphore,        \* main.c: the reading's mutex, whether created and who holds it
  temperature,           \* publish_data: the text buffer, held as the value formatted into it
  notified,              \* publish task: a task notification is pending
  connected,             \* MQTT_EVENT_CONNECTED has been dispatched since start
  writing,               \* ds18b20_convert_and_read_temp is storing into temp
  tpc,                   \* position of the sampling and the publishing task (SpecTemp)
  now,                   \* SpecTimer: the clock, in seconds
  arming,                \* SpecTimer: per timer, when it was last armed and how often it
                         \* was armed and ran out (see Armed)
  cpc,                   \* SpecCheckDisable: position of the check and the disable call
  ck,                    \* SpecCheckDisable: the check call's argument, locals and result
  wifi,                  \* SpecWifi: retryNumber, the event group bits, the last event
  msg                    \* SpecMsg: the strings add_entry builds, and its position

controlVars == <<control, is_day, lastOp, lastArg, ret, runLen, runDirs, allInRange,
                 prevIndex>>
growVars == <<is_settings_received, is_grow_active, nvs, task_state,
              is_ph_activated, is_ec_activated, calls, gLastOp, gPrev, gInited, pc>>
\* Variables only the other specifications move.
tempVars == <<temp, temp_semaphore, temperature, notified, connected, writing, tpc>>
timerVars == <<now, arming>>
raceVars == <<cpc, ck>>
netVars == <<wifi, msg>>
auxVars == <<phase, cycleRun, tempVars, timerVars, raceVars, netVars>>
vars == <<controlVars, growVars, auxVars>>

\* ================================================================ sensor control

\* struct timer, as far as this component uses it: the active flag the
\* control reads and clears, and the duration it was last armed for.
IdleTimer == [active |-> FALSE, duration |-> 0]

\* enable_timer(&dev, timer, duration): arms the timer, overwriting any
\* earlier arming.
enable_timer(timer, duration) == [active |-> TRUE, duration |-> duration]

control_reset_checks(c) ==
  [c EXCEPT !.sensor_checks = [i \in 0..(NUM_CHECKS - 1) |-> FALSE],
            !.check_index = 0]

\* control_add_check resetting one call later.
control_add_check_LateReset(c) ==
  IF c.check_index > NUM_CHECKS
    THEN [c |-> control_reset_checks(c), ret |-> TRUE]
    ELSE [c |-> [c EXCEPT !.sensor_checks =
                             [i \in DOMAIN @ \cup {c.check_index} |->
                                IF i = c.check_index THEN TRUE ELSE @[i]],
                          !.check_index = c.check_index + 1],
          ret |-> FALSE]

\* Returns the updated control and the boolean result.
control_add_check(c) ==
  IF c.check_index = NUM_CHECKS
    THEN [c |-> control_reset_checks(c), ret |-> TRUE]
    ELSE [c |-> [c EXCEPT !.sensor_checks[c.check_index] = TRUE,
                          !.check_index = c.check_index + 1],
          ret |-> FALSE]

\* control_get_target_value choosing the night target by day as well.
control_get_target_value_IgnoresDay(c) ==
  IF c.is_day_night_active THEN c.night_target_value ELSE c.target_value

control_get_target_value(c) ==
  IF ~is_day /\ c.is_day_night_active THEN c.night_target_value ELSE c.target_value

init_sensor_control(c, is_enabled_in, target_value_in, margin_error_in, night_target_value_in, is_day_night_in) ==
  control_reset_checks(
    [c EXCEPT !.is_control_enabled = is_enabled_in,
              !.is_control_active = FALSE,
              !.is_doser = FALSE,
              !.target_value = target_value_in,
              !.margin_error = margin_error_in,
              !.night_target_value = night_target_value_in,
              !.is_day_night_active = is_day_night_in])

\* init_doser_control leaving the stored dose percentage as it finds it.
init_doser_control_KeepsPercentage(c, dose_time_in, wait_time_in) ==
  [c EXCEPT !.is_doser = TRUE,
            !.dose_time = dose_time_in,
            !.wait_time = wait_time_in]

init_doser_control(c, dose_time_in, wait_time_in) ==
  [c EXCEPT !.is_doser = TRUE,
            !.dose_time = dose_time_in,
            !.wait_time = wait_time_in,
            !.dose_percentage = 100]

control_enable(c) == [c EXCEPT !.is_control_enabled = TRUE]

\* control_disable leaving the wait timer armed.
control_disable_KeepsWaitTimer(c) ==
  control_reset_checks(
    [c EXCEPT !.is_control_enabled = FALSE,
              !.is_control_active = FALSE,
              !.dose_timer.active = FALSE])

control_disable(c) ==
  control_reset_checks(
    [c EXCEPT !.is_control_enabled = FALSE,
              !.is_control_active = FALSE,
              !.dose_timer.active = FALSE,
              !.wait_timer.active = FALSE])

control_is_under_target(c, current_value) ==
  current_value < control_get_target_value(c) - c.margin_error

\* control_is_over_target with a non-strict comparison.
control_is_over_target_NonStrict(c, current_value) ==
  current_value >= control_get_target_value(c) + c.margin_error

control_is_over_target(c, current_value) ==
  current_value > control_get_target_value(c) + c.margin_error

\* The early return looking at the dose timer only.
control_check_blocked_DoseOnly(c) ==
  c.is_control_active /\ c.is_doser /\ c.dose_timer.active

\* The early return of control_check_sensor while a dose or wait is in flight.
control_check_blocked(c) ==
  c.is_control_active /\ c.is_doser /\ (c.dose_timer.active \/ c.wait_timer.active)

\* The tail of control_check_sensor: a non-doser drops active, the call
\* returns 0.
control_check_tail(c) ==
  [c |-> IF ~c.is_doser THEN [c EXCEPT !.is_control_active = FALSE] ELSE c,
   ret |-> 0]

\* control_check_evaluate with the in-range branch leaving the counter alone.
control_check_evaluate_NoReset(c, current_value) ==
  LET under_target == control_is_under_target(c, current_value)
      over_target == control_is_over_target(c, current_value)
      added == control_add_check(c)
  IN  IF under_target \/ over_target
        THEN IF added.ret
               THEN [c |-> [added.c EXCEPT !.is_control_active = TRUE],
                     ret |-> IF under_target THEN -1 ELSE 1]
               ELSE control_check_tail(added.c)
        ELSE control_check_tail(c)

\* control_check_evaluate with the sign of the request swapped.
control_check_evaluate_SwappedSign(c, current_value) ==
  LET under_target == control_is_under_target(c, current_value)
      over_target == control_is_over_target(c, current_value)
      added == control_add_check(c)
  IN  IF under_target \/ over_target
        THEN IF added.ret
               THEN [c |-> [added.c EXCEPT !.is_control_active = TRUE],
                     ret |-> IF under_target THEN 1 ELSE -1]
               ELSE control_check_tail(added.c)
        ELSE IF c.check_index > 0
               THEN control_check_tail(control_reset_checks(
                      [c EXCEPT !.is_control_active =
                                   IF c.is_doser THEN FALSE ELSE @]))
               ELSE control_check_tail(c)

\* control_check_sensor past its two early returns: the under/over
\* evaluation and the debounce.  Returns the updated control and the result.
control_check_evaluate(c, current_value) ==
  LET under_target == control_is_under_target(c, current_value)
      over_target == control_is_over_target(c, current_value)
      added == control_add_check(c)
  IN  IF under_target \/ over_target
        THEN IF added.ret
               THEN [c |-> [added.c EXCEPT !.is_control_active = TRUE],
                     ret |-> IF under_target THEN -1 ELSE 1]
               ELSE control_check_tail(added.c)
        ELSE IF c.check_index > 0
               THEN control_check_tail(control_reset_checks(
                      [c EXCEPT !.is_control_active =
                                   IF c.is_doser THEN FALSE ELSE @]))
               ELSE control_check_tail(c)

\* control_check_sensor without the early return of a disabled control.
control_check_sensor_NoEnabledGuard(c, current_value) ==
  IF control_check_blocked(c) THEN [c |-> c, ret |-> 0]
  ELSE control_check_evaluate(c, current_value)

\* Returns the updated control and the int result (-1, 0 or 1).
control_check_sensor(c, current_value) ==
  IF ~c.is_control_enabled THEN [c |-> c, ret |-> 0]
  ELSE IF control_check_blocked(c) THEN [c |-> c, ret |-> 0]
  ELSE control_check_evaluate(c, current_value)

\* control_get_dose_time arming the full dose whatever the percentage is.
control_get_dose_time_FullDose(c) == c.dose_time

\* dose_time * dose_percentage.  The float dose_percentage is held in
\* hundredths (1. is 100, 0.5 is 50), so the product is taken over 100.
control_get_dose_time(c) == (c.dose_time * c.dose_percentage) \div 100

\* control_start_dose_timer leaving an armed dose timer as it is.
control_start_dose_timer_KeepsArmed(c) ==
  IF c.dose_timer.active THEN c
  ELSE [c EXCEPT !.dose_timer = enable_timer(c.dose_timer, control_get_dose_time(c))]

control_start_dose_timer(c) ==
  [c EXCEPT !.dose_timer = enable_timer(c.dose_timer, control_get_dose_time(c))]

control_start_wait_timer(c) ==
  [c EXCEPT !.wait_timer =
     enable_timer(c.wait_timer,
                  c.wait_time - NUM_CHECKS * (SENSOR_MEASUREMENT_PERIOD \div 1000))]

control_set_dose_percentage(c, value) == [c EXCEPT !.dose_percentage = value]

\* The timer/alarm task observing that an armed timer has run out.
timer_expire(timer) == [timer EXCEPT !.active = FALSE]

\* A zero-initialised global struct sensor_control.
ZeroControl ==
  [is_control_enabled |-> FALSE, is_control_active |-> FALSE, is_doser |-> FALSE,
   target_value |-> 0, margin_error |-> 0, night_target_value |-> 0,
   is_day_night_active |-> FALSE,
   sensor_checks |-> [i \in 0..(NUM_CHECKS - 1) |-> FALSE], check_index |-> 0,
   dose_time |-> 0, wait_time |-> 0, dose_percentage |-> 0,
   dose_timer |-> IdleTimer, wait_timer |-> IdleTimer]

\* ================================================================ grow manager

\* The seven tasks the grow manager suspends and resumes.
Tasks == {"timer_alarm", "publish", "sensor_control", "water_temp", "ec", "ph", "sync"}

\* One external call issued by an orchestrator operation.
Call(op, arg) == [op |-> op, arg |-> arg]

\* The orchestrator's state as one value: the flags in memory, the store,
\* the scheduler state of the tasks, the actuator flags, and the calls the
\* operation under way has issued so far.
GrowState ==
  [is_settings_received |-> is_settings_received,
   is_grow_active |-> is_grow_active,
   nvs |-> nvs,
   task_state |-> task_state,
   is_ph_activated |-> is_ph_activated,
   is_ec_activated |-> is_ec_activated,
   calls |-> <<>>]

\* nvs_get_uint8(namespace, key, &status) failing or reading 0.
nvs_flag_unset(g, key) == g.nvs[key] = {} \/ 0 \in g.nvs[key]

BoolToUint8(b) == IF b THEN 1 ELSE 0

\* push_grow_status storing 0 whatever is_grow_active is.
push_grow_status_WritesZero(g) ==
  [g EXCEPT !.nvs.grow_active = {0},
            !.calls = Append(@, Call("nvs_commit", "grow_active"))]

push_grow_status(g) ==
  [g EXCEPT !.nvs.grow_active = {BoolToUint8(g.is_grow_active)},
            !.calls = Append(@, Call("nvs_commit", "grow_active"))]

\* push_grow_settings_status that stores nothing.
push_grow_settings_status_Skips(g) ==
  [g EXCEPT !.calls = Append(@, Call("nvs_commit", "settings_received"))]

push_grow_settings_status(g) ==
  [g EXCEPT !.nvs.settings_received = {BoolToUint8(g.is_settings_received)},
            !.calls = Append(@, Call("nvs_commit", "settings_received"))]

\* The order of the vTaskSuspend / vTaskResume calls.
TaskOrder == <<"timer_alarm", "publish", "sensor_control", "water_temp", "ec", "ph", "sync">>

TaskCalls(op, order) == [i \in 1..Len(order) |-> Call(op, order[i])]

Named(order) == {order[i] : i \in 1..Len(order)}

suspend_tasks(g) ==
  [g EXCEPT !.task_state = [t \in Tasks |-> IF t \in Named(TaskOrder) THEN "suspended" ELSE @[t]],
            !.calls = @ \o TaskCalls("vTaskSuspend", TaskOrder)]

\* resume_tasks leaving out the sync task.
resume_tasks_SkipsSync(g) ==
  [g EXCEPT !.task_state = [t \in Tasks |-> IF t \in Named(TaskOrder) \ {"sync"}
                                              THEN "running" ELSE @[t]],
            !.calls = @ \o TaskCalls("vTaskResume", SubSeq(TaskOrder, 1, 6))]

resume_tasks(g) ==
  [g EXCEPT !.task_state = [t \in Tasks |-> IF t \in Named(TaskOrder) THEN "running" ELSE @[t]],
            !.calls = @ \o TaskCalls("vTaskResume", TaskOrder)]

\* start_grow_cycle without the settings precondition.
start_grow_cycle_NoGuard(g) ==
  resume_tasks(push_grow_status([g EXCEPT !.is_grow_active = TRUE]))

start_grow_cycle(g) ==
  IF ~g.is_settings_received
    THEN [g EXCEPT !.calls = Append(@, Call("ESP_LOGE", "start before settings"))]
    ELSE resume_tasks(push_grow_status([g EXCEPT !.is_grow_active = TRUE]))

\* vTaskDelay(pdMS_TO_TICKS(4000)): the settle delay of stop_grow_cycle.
settle_delay(g) == [g EXCEPT !.calls = Append(@, Call("vTaskDelay", "4000"))]

\* hibernate_ph_if_activated hibernating whether or not the device is marked.
hibernate_ph_if_activated_Always(g) ==
  [g EXCEPT !.is_ph_activated = FALSE,
            !.calls = Append(@, Call("hibernate", "ph"))]

hibernate_ph_if_activated(g) ==
  IF g.is_ph_activated
    THEN [g EXCEPT !.is_ph_activated = FALSE,
                   !.calls = Append(@, Call("hibernate", "ph"))]
    ELSE g

\* hibernate_ec_if_activated leaving the EC device marked activated.
hibernate_ec_if_activated_KeepsFlag(g) ==
  IF g.is_ec_activated
    THEN [g EXCEPT !.calls = Append(@, Call("hibernate", "ec"))]
    ELSE g

hibernate_ec_if_activated(g) ==
  IF g.is_ec_activated
    THEN [g EXCEPT !.is_ec_activated = FALSE,
                   !.calls = Append(@, Call("hibernate", "ec"))]
    ELSE g

\* The tail of stop_grow_cycle that tests the pH device only.
hibernate_activated_PhOnly(g) ==
  hibernate_ph_if_activated(settle_delay(g))

\* The tail of stop_grow_cycle: the settle delay, then the hibernation of
\* the pH and EC devices that are marked activated.
hibernate_activated(g) ==
  hibernate_ec_if_activated(hibernate_ph_if_activated(settle_delay(g)))

\* stop_grow_cycle that does not persist the cleared flag.
stop_grow_cycle_NoPush(g) ==
  hibernate_activated(suspend_tasks([g EXCEPT !.is_grow_active = FALSE]))

\* stop_grow_cycle that also forgets the received settings.
stop_grow_cycle_ClearsSettings(g) ==
  hibernate_activated(suspend_tasks(push_grow_status(
    [g EXCEPT !.is_grow_active = FALSE, !.is_settings_received = FALSE])))

\* stop_grow_cycle hibernating before it suspends the tasks.
stop_grow_cycle_HibernateFirst(g) ==
  suspend_tasks(hibernate_activated(push_grow_status([g EXCEPT !.is_grow_active = FALSE])))

stop_grow_cycle(g) ==
  hibernate_activated(suspend_tasks(push_grow_status([g EXCEPT !.is_grow_active = FALSE])))

\* settings_received persisting the flag without setting it.
settings_received_PersistOnly(g) == push_grow_settings_status(g)

settings_received(g) ==
  push_grow_settings_status([g EXCEPT !.is_settings_received = TRUE])

\* The loading of the persisted settings that leaves out water temperature.
get_nvs_settings_SkipsWaterTemp(g) ==
  [g EXCEPT !.calls = @ \o <<Call("get_nvs_settings", "ph"), Call("get_nvs_settings", "ec")>>]

\* ph_get_nvs_settings, ec_get_nvs_settings, water_temp_get_nvs_settings.
get_nvs_settings(g) ==
  [g EXCEPT !.calls = @ \o <<Call("get_nvs_settings", "ph"), Call("get_nvs_settings", "ec"),
                             Call("get_nvs_settings", "water_temp")>>]

\* init_grow_manager without the test of the persisted settings flag.
init_grow_manager_NoSettingsGuard(g) ==
  LET s == settings_received(get_nvs_settings(g))
  IN  IF nvs_flag_unset(s, "grow_active")
        THEN stop_grow_cycle(s)
        ELSE start_grow_cycle(s)

init_grow_manager(g) ==
  IF nvs_flag_unset(g, "settings_received")
    THEN stop_grow_cycle([g EXCEPT !.is_settings_received = FALSE])
    ELSE LET s == settings_received(get_nvs_settings(g))
         IN  IF nvs_flag_unset(s, "grow_active")
               THEN stop_grow_cycle(s)
               ELSE start_grow_cycle(s)

\* No orchestrator call is in progress.
IdlePc == [stop |-> "idle", start |-> "idle", settings |-> "idle"]

\* The orchestrator's state right after boot_sequence on an empty store.
BootState ==
  [is_settings_received |-> FALSE, is_grow_active |-> FALSE,
   nvs |-> [settings_received |-> {}, grow_active |-> {}],
   task_state |-> [t \in Tasks |-> "running"],
   is_ph_activated |-> FALSE, is_ec_activated |-> FALSE, calls |-> <<>>]

NeverArmed == [armed_at |-> 0, arms |-> 0, fired |-> 0]

\* No check call has been made: no argument, no locals, no result.
NoCheck == [current_value |-> 0, found_index |-> 0, under_target |-> FALSE,
            over_target |-> FALSE, ret |-> 0, late |-> FALSE]

\* The WiFi driver has not been started: no handler registered, retryNumber
\* and the event group bits zero.
WifiOff ==
  [program |-> "none", retryNumber |-> 0, connected_bit |-> FALSE, fail_bit |-> FALSE,
   connects |-> 0, disconnects |-> 0, event |-> "none", waiter |-> "none"]

\* A char* that points at no buffer.
NullStr == [ptr |-> "null", cap |-> 0, val |-> ""]

\* No message is being built; rebooted tells whether the controller has
\* restarted on a failed allocation before.
NoMsg ==
  [data |-> NullStr, entry |-> NullStr, first |-> TRUE, entries |-> 0, at |-> "idle",
   alloc_failed |-> FALSE, restarted |-> FALSE, null_written |-> FALSE,
   overflow |-> FALSE, rebooted |-> FALSE]

\* The variables of the other specifications at rest.
AuxDefaults ==
  /\ phase = "idle"
  /\ cycleRun = 0
  /\ temp = 0
  /\ temp_semaphore = [created |-> FALSE, holder |-> "none"]
  /\ temperature = 0
  /\ notified = FALSE
  /\ connected = FALSE
  /\ writing = FALSE
  /\ tpc = [sampler |-> "create_mutex", publisher |-> "start_client"]
  /\ now = 0
  /\ arming = [dose |-> NeverArmed, wait |-> NeverArmed]
  /\ cpc = [check |-> "idle", disable |-> "idle"]
  /\ ck = NoCheck
  /\ wifi = WifiOff
  /\ msg = NoMsg

\* Zero-initialised globals of the grow manager and an empty store; the
\* tasks as boot_sequence creates them (created tasks run).
GrowDefaults ==
  /\ is_settings_received = FALSE
  /\ is_grow_active = FALSE
  /\ nvs = [settings_received |-> {}, grow_active |-> {}]
  /\ task_state = [t \in Tasks |-> "running"]
  /\ is_ph_activated = FALSE
  /\ is_ec_activated = FALSE
  /\ calls = <<>>
  /\ gLastOp = "boot"
  /\ gPrev = BootState
  /\ gInited = FALSE
  /\ pc = IdlePc
  /\ AuxDefaults

\* ------------------------------------------------------ sensor control actions

TimerActive(c) == c.dose_timer.active \/ c.wait_timer.active

\* The target in force: the night target at night when day/night is on.
SelectedTarget(c) ==
  IF c.is_day_night_active /\ ~is_day THEN c.night_target_value ELSE c.target_value

\* The reading lies in [target - margin, target + margin], bounds included.
WithinMargin(c, v) ==
  /\ v >= SelectedTarget(c) - c.margin_error
  /\ v <= SelectedTarget(c) + c.margin_error

OutOfRange(c, v) == ~WithinMargin(c, v)

\* A dose or cooldown of a triggered doser is in flight.
InFlight(c) == c.is_doser /\ c.is_control_active /\ TimerActive(c)

\* The call reaches the under/over evaluation (neither early return taken).
Evaluated(c) == c.is_control_enabled /\ ~InFlight(c)

Direction(c, v) == IF v < SelectedTarget(c) - c.margin_error THEN -1 ELSE 1

\* The configuration fields of a control.
Config(c) ==
  <<c.target_value, c.night_target_value, c.margin_error, c.is_day_night_active,
    c.is_doser, c.dose_time, c.wait_time, c.dose_percentage>>

Min(a, b) == IF a < b THEN a ELSE b

\* Position of a check call within a run of consecutive out-of-range calls
\* that started from counter 0 with no timer active; 0 when the call belongs
\* to no such run.  A run ends with the call that returns a request.
NextRunLen(c, v) ==
  IF ~(Evaluated(c) /\ OutOfRange(c, v)) THEN 0
  ELSE IF runLen = 0 \/ ret # 0 \/ lastOp # "check"
         THEN IF c.check_index = 0 /\ ~TimerActive(c) THEN 1 ELSE 0
         ELSE Min(runLen + 1, NUM_CHECKS + 1)

ControlOther(op) ==
  /\ lastOp' = op
  /\ runLen' = 0
  /\ runDirs' = {}
  /\ lastArg' = 0
  /\ ret' = 0
  /\ prevIndex' = 0
  /\ UNCHANGED <<is_day, allInRange, growVars, auxVars>>

InitControl ==
  /\ \E en \in BOOLEAN, t \in Targets, m \in Margins, nt \in NightTargets, dn \in BOOLEAN :
       control = init_sensor_control(ZeroControl, en, t, m, nt, dn)
  /\ is_day = TRUE
  /\ lastOp = "init"
  /\ lastArg = 0
  /\ ret = 0
  /\ runLen = 0
  /\ runDirs = {}
  /\ allInRange = TRUE
  /\ prevIndex = 0
  /\ GrowDefaults

Check(v) ==
  LET r == control_check_sensor(control, v)
      n == NextRunLen(control, v)
  IN  /\ control' = r.c
      /\ ret' = r.ret
      /\ lastOp' = "check"
      /\ lastArg' = v
      /\ runLen' = n
      /\ runDirs' = IF n = 0 THEN {}
                    ELSE IF n = 1 THEN {Direction(control, v)}
                    ELSE runDirs \cup {Direction(control, v)}
      /\ allInRange' = (allInRange /\ ~OutOfRange(control, v))
      /\ prevIndex' = control.check_index
      /\ UNCHANGED <<is_day, growVars, auxVars>>

Enable ==
  /\ control' = control_enable(control)
  /\ ControlOther("enable")

Disable ==
  /\ control' = control_disable(control)
  /\ ControlOther("disable")

\* init_sensor_control run again on the live control (settings reload).
ReInit(en, t, m, nt, dn) ==
  /\ control' = init_sensor_control(control, en, t, m, nt, dn)
  /\ lastOp' = "init"
  /\ runLen' = 0
  /\ runDirs' = {}
  /\ allInRange' = TRUE
  /\ lastArg' = 0
  /\ ret' = 0
  /\ prevIndex' = 0
  /\ UNCHANGED <<is_day, growVars, auxVars>>

InitDoser(dt, wt) ==
  /\ control' = init_doser_control(control, dt, wt)
  /\ ControlOther("init_doser")

StartDose ==
  /\ control.is_doser
  /\ control' = control_start_dose_timer(control)
  /\ ControlOther("start_dose")

StartWait ==
  /\ control.is_doser
  /\ control' = control_start_wait_timer(control)
  /\ ControlOther("start_wait")

SetDosePercentage(p) ==
  /\ control.is_doser
  /\ control' = control_set_dose_percentage(control, p)
  /\ ControlOther("set_dose_percentage")

DoseTimerExpire ==
  /\ control.dose_timer.active
  /\ control' = [control EXCEPT !.dose_timer = timer_expire(@)]
  /\ ControlOther("dose_expire")

WaitTimerExpire ==
  /\ control.wait_timer.active
  /\ control' = [control EXCEPT !.wait_timer = timer_expire(@)]
  /\ ControlOther("wait_expire")

\* The day and night alarms of the rtc component flipping is_day.
DayNightSwitch ==
  /\ is_day' = ~is_day
  /\ UNCHANGED <<control, lastOp, lastArg, ret, runLen, runDirs, allInRange, prevIndex,
                 growVars, auxVars>>

NextControl ==
  \/ \E v \in Readings : Check(v)
  \/ Enable
  \/ Disable
  \/ \E en \in BOOLEAN, t \in Targets, m \in Margins, nt \in NightTargets, dn \in BOOLEAN :
       ReInit(en, t, m, nt, dn)
  \/ \E dt \in DoseTimes, wt \in WaitTimes : InitDoser(dt, wt)
  \/ StartDose
  \/ StartWait
  \/ \E p \in DosePercentages : SetDosePercentage(p)
  \/ DoseTimerExpire
  \/ WaitTimerExpire
  \/ DayNightSwitch

SpecControl == InitControl /\ [][NextControl]_vars

\* The step is a control_check_sensor call, on the reading lastArg'.
CheckStep == lastOp' = "check" /\ lastArg' \in Readings /\ Check(lastArg')

TypeOKControl ==
  /\ control.check_index \in 0..NUM_CHECKS
  /\ ret \in {-1, 0, 1}
  /\ runLen \in 0..(NUM_CHECKS + 1)

\* ------------------------------------------------------ grow manager actions

\* An orchestrator operation has run and left the state g.
GrowBecomes(g) ==
  /\ is_settings_received' = g.is_settings_received
  /\ is_grow_active' = g.is_grow_active
  /\ nvs' = g.nvs
  /\ task_state' = g.task_state
  /\ is_ph_activated' = g.is_ph_activated
  /\ is_ec_activated' = g.is_ec_activated
  /\ calls' = g.calls
  /\ gPrev' = GrowState
  /\ UNCHANGED <<controlVars, auxVars>>

InitGrow ==
  /\ GrowDefaults
  /\ control = ZeroControl
  /\ is_day = TRUE
  /\ lastOp = "init"
  /\ lastArg = 0
  /\ ret = 0
  /\ runLen = 0
  /\ runDirs = {}
  /\ allInRange = TRUE
  /\ prevIndex = 0

InitGrowManager ==
  /\ gLastOp' = "init_grow_manager"
  /\ gInited' = TRUE
  /\ GrowBecomes(init_grow_manager(GrowState))
  /\ UNCHANGED pc

StartGrowCycle ==
  /\ gLastOp' = "start_grow_cycle"
  /\ GrowBecomes(start_grow_cycle(GrowState))
  /\ UNCHANGED <<gInited, pc>>

StopGrowCycle ==
  /\ gLastOp' = "stop_grow_cycle"
  /\ GrowBecomes(stop_grow_cycle(GrowState))
  /\ UNCHANGED <<gInited, pc>>

SettingsReceived ==
  /\ gLastOp' = "settings_received"
  /\ GrowBecomes(settings_received(GrowState))
  /\ UNCHANGED <<gInited, pc>>

\* A running pH or EC sampling task wakes its device and marks it activated.
ActivatePh ==
  /\ task_state["ph"] = "running"
  /\ ~is_ph_activated
  /\ gLastOp' = "activate_ph"
  /\ GrowBecomes([GrowState EXCEPT !.is_ph_activated = TRUE])
  /\ UNCHANGED <<gInited, pc>>

ActivateEc ==
  /\ task_state["ec"] = "running"
  /\ ~is_ec_activated
  /\ gLastOp' = "activate_ec"
  /\ GrowBecomes([GrowState EXCEPT !.is_ec_activated = TRUE])
  /\ UNCHANGED <<gInited, pc>>

\* Power cycle: the globals are zeroed, the store is kept, boot_sequence
\* creates the tasks (boot.c 223-232).
Reboot ==
  /\ is_settings_received' = FALSE
  /\ is_grow_active' = FALSE
  /\ task_state' = [t \in Tasks |-> "running"]
  /\ is_ph_activated' = FALSE
  /\ is_ec_activated' = FALSE
  /\ calls' = <<>>
  /\ gLastOp' = "boot"
  /\ gPrev' = GrowState
  /\ gInited' = FALSE
  /\ UNCHANGED <<nvs, pc, controlVars, auxVars>>

\* nvs_clear(): the store is erased.
NvsClear ==
  /\ nvs' = [settings_received |-> {}, grow_active |-> {}]
  /\ calls' = <<>>
  /\ gLastOp' = "nvs_clear"
  /\ gPrev' = GrowState
  /\ UNCHANGED <<is_settings_received, is_grow_active, task_state,
                 is_ph_activated, is_ec_activated, gInited, pc, controlVars, auxVars>>

NextGrow ==
  \/ InitGrowManager
  \/ StartGrowCycle
  \/ StopGrowCycle
  \/ SettingsReceived
  \/ ActivatePh
  \/ ActivateEc
  \/ Reboot
  \/ NvsClear

SpecGrow == InitGrow /\ [][NextGrow]_vars

AllTasks(st) == \A t \in Tasks : task_state[t] = st

\* The controller loses power and boots again: the globals are zeroed, the
\* store is kept, boot_sequence creates the tasks, and init_grow_manager
\* runs as the first orchestrator operation.
PowerCycle ==
  /\ gLastOp' = "power_cycle"
  /\ gInited' = TRUE
  /\ GrowBecomes(init_grow_manager([BootState EXCEPT !.nvs = nvs]))
  /\ UNCHANGED pc

\* The orchestrator driven from its defaults by init_grow_manager,
\* settings_received, start_grow_cycle and stop_grow_cycle in any order,
\* by the sampling tasks that activate their devices, and by power cycles;
\* the store is never erased.
NextGrowOps ==
  \/ InitGrowManager
  \/ StartGrowCycle
  \/ StopGrowCycle
  \/ SettingsReceived
  \/ ActivatePh
  \/ ActivateEc
  \/ PowerCycle

SpecGrowOps == InitGrow /\ [][NextGrowOps]_vars

\* ------------------------------------- grow manager operations, step by step
\* start_grow_cycle, stop_grow_cycle and settings_received called from
\* different tasks, each advancing one statement at a time; the code holds
\* no lock around them.  pc is the position of each caller.

\* One statement of the operation op has run: it left the state g and the
\* caller at position next.
GrowStep(op, name, next, g) ==
  /\ gLastOp' = name
  /\ pc' = [pc EXCEPT ![op] = next]
  /\ GrowBecomes(g)
  /\ UNCHANGED gInited

\* grow_manager.c 111
StopSetFlag ==
  /\ pc.stop = "idle"
  /\ GrowStep("stop", "stop_set_flag", "push", [GrowState EXCEPT !.is_grow_active = FALSE])

\* grow_manager.c 112
StopPush ==
  /\ pc.stop = "push"
  /\ GrowStep("stop", "stop_push", "suspend", push_grow_status(GrowState))

\* grow_manager.c 115
StopSuspend ==
  /\ pc.stop = "suspend"
  /\ GrowStep("stop", "stop_suspend", "delay", suspend_tasks(GrowState))

\* grow_manager.c 117: the delay has elapsed.
StopDelay ==
  /\ pc.stop = "delay"
  /\ GrowStep("stop", "stop_delay", "hibernate_ph", settle_delay(GrowState))

\* grow_manager.c 118-121
StopHibernatePh ==
  /\ pc.stop = "hibernate_ph"
  /\ GrowStep("stop", "stop_hibernate_ph", "hibernate_ec", hibernate_ph_if_activated(GrowState))

\* grow_manager.c 122-126: the last statement, after which the call returns.
StopHibernateEc ==
  /\ pc.stop = "hibernate_ec"
  /\ GrowStep("stop", "stop_return", "idle", hibernate_ec_if_activated(GrowState))

\* grow_manager.c 96-102
StartSetFlag ==
  /\ pc.start = "idle"
  /\ IF ~is_settings_received
       THEN GrowStep("start", "start_refused", "idle", start_grow_cycle(GrowState))
       ELSE GrowStep("start", "start_set_flag", "push", [GrowState EXCEPT !.is_grow_active = TRUE])

\* grow_manager.c 103
StartPush ==
  /\ pc.start = "push"
  /\ GrowStep("start", "start_push", "resume", push_grow_status(GrowState))

\* grow_manager.c 105
StartResume ==
  /\ pc.start = "resume"
  /\ GrowStep("start", "start_return", "idle", resume_tasks(GrowState))

\* grow_manager.c 129
SettingsSetFlag ==
  /\ pc.settings = "idle"
  /\ GrowStep("settings", "settings_set_flag", "push", [GrowState EXCEPT !.is_settings_received = TRUE])

\* grow_manager.c 130
SettingsPush ==
  /\ pc.settings = "push"
  /\ GrowStep("settings", "settings_return", "idle", push_grow_settings_status(GrowState))

NextGrowSteps ==
  \/ StopSetFlag
  \/ StopPush
  \/ StopSuspend
  \/ StopDelay
  \/ StopHibernatePh
  \/ StopHibernateEc
  \/ StartSetFlag
  \/ StartPush
  \/ StartResume
  \/ SettingsSetFlag
  \/ SettingsPush
  \/ ActivatePh
  \/ ActivateEc

SpecGrowSteps == InitGrow /\ [][NextGrowSteps]_vars

\* ------------------------------------------------- the dose cycle of a doser
\* A doser control driven as its callers drive it: the sampling task calls
\* control_check_sensor once per sample; the actuator module calls
\* control_start_dose_timer after a request and control_start_wait_timer
\* after the dose timer has run out; samples keep arriving in between.
\* phase follows the cycle of the last request: "idle" (no request yet),
\* "requested", "dosing", "dosed", "cooling", and "rearmed" once the wait
\* timer armed for the request has run out.

Phases == {"idle", "requested", "dosing", "dosed", "cooling", "rearmed"}

\* The request has been returned and its cooldown has not yet run out.
CycleOpen == phase \in {"requested", "dosing", "dosed", "cooling"}

DoserOther(op, ph) ==
  /\ lastOp' = op
  /\ phase' = ph
  /\ cycleRun' = 0
  /\ runLen' = 0
  /\ lastArg' = 0
  /\ ret' = 0
  /\ prevIndex' = 0
  /\ UNCHANGED <<is_day, runDirs, allInRange, growVars, tempVars, timerVars, raceVars, netVars>>

InitDoserCycle ==
  /\ \E t \in Targets, m \in Margins, nt \in NightTargets, dt \in DoseTimes, wt \in WaitTimes :
       control = init_doser_control(init_sensor_control(ZeroControl, TRUE, t, m, nt, FALSE), dt, wt)
  /\ is_day = TRUE
  /\ lastOp = "init_doser"
  /\ lastArg = 0
  /\ ret = 0
  /\ runLen = 0
  /\ runDirs = {}
  /\ allInRange = TRUE
  /\ prevIndex = 0
  /\ phase = "idle"
  /\ cycleRun = 0
  /\ GrowDefaults

DoserCheck(v) ==
  LET r == control_check_sensor(control, v)
  IN  /\ control' = r.c
      /\ ret' = r.ret
      /\ lastOp' = "check"
      /\ lastArg' = v
      /\ runLen' = NextRunLen(control, v)
      /\ prevIndex' = control.check_index
      /\ phase' = IF r.ret # 0 THEN "requested" ELSE phase
      /\ cycleRun' = IF phase = "rearmed" /\ Evaluated(control) /\ OutOfRange(control, v)
                       THEN Min(cycleRun + 1, NUM_CHECKS + 1)
                       ELSE 0
      /\ UNCHANGED <<is_day, runDirs, allInRange, growVars, tempVars, timerVars, raceVars, netVars>>

DoserStartDose ==
  /\ phase = "requested"
  /\ control' = control_start_dose_timer(control)
  /\ DoserOther("start_dose", "dosing")

DoserDoseExpire ==
  /\ phase = "dosing"
  /\ control.dose_timer.active
  /\ control' = [control EXCEPT !.dose_timer = timer_expire(@)]
  /\ DoserOther("dose_expire", "dosed")

DoserStartWait ==
  /\ phase = "dosed"
  /\ control' = control_start_wait_timer(control)
  /\ DoserOther("start_wait", "cooling")

DoserWaitExpire ==
  /\ phase = "cooling"
  /\ control.wait_timer.active
  /\ control' = [control EXCEPT !.wait_timer = timer_expire(@)]
  /\ DoserOther("wait_expire", "rearmed")

DoserDisable ==
  /\ control.is_control_enabled
  /\ control' = control_disable(control)
  /\ DoserOther("disable", "idle")

DoserEnable ==
  /\ ~control.is_control_enabled
  /\ control' = control_enable(control)
  /\ DoserOther("enable", phase)

NextDoser ==
  \/ \E v \in Readings : DoserCheck(v)
  \/ DoserStartDose
  \/ DoserDoseExpire
  \/ DoserStartWait
  \/ DoserWaitExpire
  \/ DoserDisable
  \/ DoserEnable

SpecDoser == InitDoserCycle /\ [][NextDoser]_vars

\* ------------------------------------------- temperature sampling and publishing
\* TestIDF/main/main.c: measure_temperature and publish_data, two tasks of
\* equal priority, each advancing one statement at a time.

\* The task moves to position next; the other task stays where it is.
TempStep(task, next) ==
  /\ tpc' = [tpc EXCEPT ![task] = next]
  /\ UNCHANGED <<controlVars, growVars, phase, cycleRun, timerVars, raceVars, netVars>>

\* main.c 118
SampleCreateMutex ==
  /\ tpc.sampler = "create_mutex"
  /\ temp_semaphore' = [created |-> TRUE, holder |-> "none"]
  /\ TempStep("sampler", "read_rom")
  /\ UNCHANGED <<temp, temperature, notified, writing, connected>>

\* main.c 119-127, 159-165: the bus is probed; without a device the task
\* only sleeps from then on.
SampleReadRom ==
  /\ tpc.sampler = "read_rom"
  /\ \E ok \in BOOLEAN : TempStep("sampler", IF ok THEN "convert" ELSE "not_working")
  /\ UNCHANGED <<temp, temp_semaphore, temperature, notified, writing, connected>>

\* main.c 146: ds18b20_convert_and_read_temp starts; it stores through &temp.
SampleConvertBegin ==
  /\ tpc.sampler = "convert"
  /\ writing' = TRUE
  /\ TempStep("sampler", "converting")
  /\ UNCHANGED <<temp, temp_semaphore, temperature, notified, connected>>

\* main.c 146-147: the conversion returns, with a reading stored or an error.
SampleConvertEnd ==
  /\ tpc.sampler = "converting"
  /\ writing' = FALSE
  /\ \E ok \in BOOLEAN, v \in Temps :
       IF ok THEN temp' = v /\ TempStep("sampler", "take")
             ELSE temp' = temp /\ TempStep("sampler", "error_delay")
  /\ UNCHANGED <<temp_semaphore, temperature, notified, connected>>

\* main.c 148-150
SampleErrorDelay ==
  /\ tpc.sampler = "error_delay"
  /\ TempStep("sampler", "delay")
  /\ UNCHANGED <<temp, temp_semaphore, temperature, notified, writing, connected>>

\* main.c 152: blocks while the mutex is held.
SampleTake ==
  /\ tpc.sampler = "take"
  /\ temp_semaphore.created
  /\ temp_semaphore.holder = "none"
  /\ temp_semaphore' = [temp_semaphore EXCEPT !.holder = "sampler"]
  /\ TempStep("sampler", "print")
  /\ UNCHANGED <<temp, temperature, notified, writing, connected>>

\* main.c 153: printf of temp.
SamplePrint ==
  /\ tpc.sampler = "print"
  /\ TempStep("sampler", "give")
  /\ UNCHANGED <<temp, temp_semaphore, temperature, notified, writing, connected>>

\* main.c 154
SampleGive ==
  /\ tpc.sampler = "give"
  /\ temp_semaphore' = [temp_semaphore EXCEPT !.holder = "none"]
  /\ TempStep("sampler", "delay")
  /\ UNCHANGED <<temp, temperature, notified, writing, connected>>

\* main.c 156
SampleDelay ==
  /\ tpc.sampler = "delay"
  /\ TempStep("sampler", "convert")
  /\ UNCHANGED <<temp, temp_semaphore, temperature, notified, writing, connected>>

\* main.c 97-103
PublishStartClient ==
  /\ tpc.publisher = "start_client"
  /\ TempStep("publisher", "wait_notify")
  /\ UNCHANGED <<temp, temp_semaphore, temperature, notified, writing, connected>>

\* main.c 65-66: mqtt_event_handler on MQTT_EVENT_CONNECTED.
MqttConnected ==
  /\ tpc.publisher # "start_client"
  /\ ~notified
  /\ notified' = TRUE
  /\ connected' = TRUE
  /\ UNCHANGED <<temp, temp_semaphore, temperature, writing, tpc,
                 controlVars, growVars, phase, cycleRun, timerVars, raceVars, netVars>>

\* main.c 105: ulTaskNotifyTake(pdTRUE, portMAX_DELAY).
PublishWaitNotify ==
  /\ tpc.publisher = "wait_notify"
  /\ notified
  /\ notified' = FALSE
  /\ TempStep("publisher", "format")
  /\ UNCHANGED <<temp, temp_semaphore, temperature, writing, connected>>

\* main.c 108-109: snprintf of temp into the buffer.  A read that falls
\* into a store under way may see any value.
PublishFormat ==
  /\ tpc.publisher = "format"
  /\ IF writing THEN temperature' \in Temps \cup {temp} ELSE temperature' = temp
  /\ TempStep("publisher", "take")
  /\ UNCHANGED <<temp, temp_semaphore, notified, writing, connected>>

\* main.c 110: blocks while the mutex is held.  A take through the null
\* handle of a mutex not yet created is a fault: the controller panics and
\* restarts, and both tasks start over.
PublishTake ==
  /\ tpc.publisher = "take"
  /\ IF ~temp_semaphore.created
       THEN /\ temp' = 0
            /\ temp_semaphore' = [created |-> FALSE, holder |-> "none"]
            /\ temperature' = 0
            /\ notified' = FALSE
            /\ connected' = FALSE
            /\ writing' = FALSE
            /\ tpc' = [sampler |-> "create_mutex", publisher |-> "start_client"]
            /\ UNCHANGED <<controlVars, growVars, phase, cycleRun, timerVars, raceVars, netVars>>
       ELSE /\ temp_semaphore.holder = "none"
            /\ temp_semaphore' = [temp_semaphore EXCEPT !.holder = "publisher"]
            /\ TempStep("publisher", "publish")
            /\ UNCHANGED <<temp, temperature, notified, writing, connected>>

\* main.c 111: esp_mqtt_client_publish of the buffer.
PublishSend ==
  /\ tpc.publisher = "publish"
  /\ TempStep("publisher", "give")
  /\ UNCHANGED <<temp, temp_semaphore, temperature, notified, writing, connected>>

\* main.c 112
PublishGive ==
  /\ tpc.publisher = "give"
  /\ temp_semaphore' = [temp_semaphore EXCEPT !.holder = "none"]
  /\ TempStep("publisher", "delay")
  /\ UNCHANGED <<temp, temperature, notified, writing, connected>>

\* main.c 113
PublishDelay ==
  /\ tpc.publisher = "delay"
  /\ TempStep("publisher", "format")
  /\ UNCHANGED <<temp, temp_semaphore, temperature, notified, writing, connected>>

NextTemp ==
  \/ SampleCreateMutex
  \/ SampleReadRom
  \/ SampleConvertBegin
  \/ SampleConvertEnd
  \/ SampleErrorDelay
  \/ SampleTake
  \/ SamplePrint
  \/ SampleGive
  \/ SampleDelay
  \/ PublishStartClient
  \/ MqttConnected
  \/ PublishWaitNotify
  \/ PublishFormat
  \/ PublishTake
  \/ PublishSend
  \/ PublishGive
  \/ PublishDelay

\* app_main has created both tasks (main.c 207-208).
SpecTemp == InitGrow /\ [][NextTemp]_vars

\* Both tasks have priority 2 on core 1 (main.c 207-208): the scheduler runs
\* each of them whenever it can take a step.  A task blocked in
\* xSemaphoreTake is made ready by the other task's give, and the giver then
\* sleeps in vTaskDelay, so a take that can succeed again and again does
\* succeed.  The MQTT connection is left to the broker: no fairness.
FairnessTemp ==
  /\ WF_vars(SampleCreateMutex)
  /\ WF_vars(SampleReadRom)
  /\ WF_vars(SampleConvertBegin)
  /\ WF_vars(SampleConvertEnd)
  /\ WF_vars(SampleErrorDelay)
  /\ SF_vars(SampleTake)
  /\ WF_vars(SamplePrint)
  /\ WF_vars(SampleGive)
  /\ WF_vars(SampleDelay)
  /\ WF_vars(PublishStartClient)
  /\ WF_vars(PublishWaitNotify)
  /\ WF_vars(PublishFormat)
  /\ SF_vars(PublishTake)
  /\ WF_vars(PublishSend)
  /\ WF_vars(PublishGive)
  /\ WF_vars(PublishDelay)

SpecTempFair == InitGrow /\ [][NextTemp]_vars /\ FairnessTemp

\* --------------------------------------------------- the timers against a clock
\* A doser's two timers with the clock made explicit: enable_timer records
\* the time of the call, and the timer/alarm task clears an armed timer once
\* the clock has reached that time plus the duration.

\* arms counts the armings since the timer last ran out, up to 2; fired the
\* times it ran out since it was last armed.
Armed(a) ==
  [armed_at |-> now, arms |-> IF a.fired > 0 THEN 1 ELSE Min(a.arms + 1, 2), fired |-> 0]

RanOut(a) == [a EXCEPT !.fired = Min(a.fired + 1, 2)]

Deadline(timer, a) == a.armed_at + timer.duration

TimerFrame ==
  UNCHANGED <<is_day, lastOp, lastArg, ret, runLen, runDirs, allInRange, prevIndex,
              growVars, phase, cycleRun, tempVars, raceVars, netVars>>

Tick ==
  /\ now < MaxTime
  /\ now' = now + 1
  /\ UNCHANGED <<control, arming>>
  /\ TimerFrame

TimerSetDosePercentage(p) ==
  /\ control' = control_set_dose_percentage(control, p)
  /\ control' # control
  /\ UNCHANGED <<now, arming>>
  /\ TimerFrame

TimerStartDose ==
  /\ control' = control_start_dose_timer(control)
  /\ arming' = [arming EXCEPT !.dose = Armed(@)]
  /\ UNCHANGED now
  /\ TimerFrame

TimerStartWait ==
  /\ control' = control_start_wait_timer(control)
  /\ arming' = [arming EXCEPT !.wait = Armed(@)]
  /\ UNCHANGED now
  /\ TimerFrame

TimerDoseExpire ==
  /\ control.dose_timer.active
  /\ now >= Deadline(control.dose_timer, arming.dose)
  /\ control' = [control EXCEPT !.dose_timer = timer_expire(@)]
  /\ arming' = [arming EXCEPT !.dose = RanOut(@)]
  /\ UNCHANGED now
  /\ TimerFrame

TimerWaitExpire ==
  /\ control.wait_timer.active
  /\ now >= Deadline(control.wait_timer, arming.wait)
  /\ control' = [control EXCEPT !.wait_timer = timer_expire(@)]
  /\ arming' = [arming EXCEPT !.wait = RanOut(@)]
  /\ UNCHANGED now
  /\ TimerFrame

NextTimer ==
  \/ Tick
  \/ \E p \in DosePercentages : TimerSetDosePercentage(p)
  \/ TimerStartDose
  \/ TimerStartWait
  \/ TimerDoseExpire
  \/ TimerWaitExpire

SpecTimer == InitDoserCycle /\ [][NextTimer]_vars

\* ------------------------------------ control_check_sensor against control_disable
\* One control_check_sensor call and one control_disable call on the same
\* control, made by two tasks, each advancing one statement at a time; the
\* code takes no lock.  The control starts enabled, with any number of
\* samples already counted.

RaceFrame ==
  UNCHANGED <<is_day, lastOp, lastArg, ret, runLen, runDirs, allInRange, prevIndex,
              growVars, phase, cycleRun, tempVars, timerVars, netVars>>

\* A control that has counted k consecutive out-of-range samples.
ControlCounted(c, k) ==
  [c EXCEPT !.check_index = k,
            !.sensor_checks = [i \in 0..(NUM_CHECKS - 1) |-> i < k]]

InitCheckDisable ==
  /\ \E t \in Targets, m \in Margins, nt \in NightTargets, dt \in DoseTimes, wt \in WaitTimes,
        doser \in BOOLEAN, k \in 0..NUM_CHECKS :
       LET c == init_sensor_control(ZeroControl, TRUE, t, m, nt, FALSE)
       IN  control = ControlCounted(IF doser THEN init_doser_control(c, dt, wt) ELSE c, k)
  /\ is_day = TRUE
  /\ lastOp = "init"
  /\ lastArg = 0
  /\ ret = 0
  /\ runLen = 0
  /\ runDirs = {}
  /\ allInRange = TRUE
  /\ prevIndex = 0
  /\ GrowDefaults

\* The check call moves to position next, the disable call stays.
CheckAt(next) == cpc' = [cpc EXCEPT !.check = next]

\* The check call returns r; late records that disable had returned by then
\* (found_index is the counter as the call found it).
CheckReturns(r) ==
  /\ cpc' = [cpc EXCEPT !.check = "returned"]
  /\ ck' = [ck EXCEPT !.ret = r, !.late = (cpc.disable = "returned")]

\* sensor_control.c 87
CkEnabledTest(v) ==
  /\ cpc.check = "idle"
  /\ IF ~control.is_control_enabled
       THEN CheckReturns(0)
       ELSE /\ CheckAt("blocked_test")
            /\ ck' = [ck EXCEPT !.current_value = v, !.found_index = control.check_index]
  /\ UNCHANGED control
  /\ RaceFrame

\* sensor_control.c 88-91
CkBlockedTest ==
  /\ cpc.check = "blocked_test"
  /\ IF control_check_blocked(control)
       THEN CheckReturns(0)
       ELSE CheckAt("evaluate") /\ UNCHANGED ck
  /\ UNCHANGED control
  /\ RaceFrame

\* sensor_control.c 93-94
CkEvaluate ==
  /\ cpc.check = "evaluate"
  /\ ck' = [ck EXCEPT !.under_target = control_is_under_target(control, ck.current_value),
                       !.over_target = control_is_over_target(control, ck.current_value)]
  /\ CheckAt("branch")
  /\ UNCHANGED control
  /\ RaceFrame

\* sensor_control.c 96, 101
CkBranch ==
  /\ cpc.check = "branch"
  /\ CheckAt(IF ck.under_target \/ ck.over_target THEN "add_test"
             ELSE IF control.check_index > 0 THEN "in_range_reset"
             ELSE "tail")
  /\ UNCHANGED <<control, ck>>
  /\ RaceFrame

\* sensor_control.c 16
CkAddTest ==
  /\ cpc.check = "add_test"
  /\ CheckAt(IF control.check_index = NUM_CHECKS THEN "add_reset" ELSE "add_write")
  /\ UNCHANGED <<control, ck>>
  /\ RaceFrame

\* sensor_control.c 17-18
CkAddReset ==
  /\ cpc.check = "add_reset"
  /\ control' = control_reset_checks(control)
  /\ CheckAt("trigger")
  /\ UNCHANGED ck
  /\ RaceFrame

\* sensor_control.c 98-99
CkTrigger ==
  /\ cpc.check = "trigger"
  /\ control' = [control EXCEPT !.is_control_active = TRUE]
  /\ CheckReturns(IF ck.under_target THEN -1 ELSE 1)
  /\ RaceFrame

\* sensor_control.c 20-22
CkAddWrite ==
  /\ cpc.check = "add_write"
  /\ control' = [control EXCEPT !.sensor_checks[control.check_index] = TRUE,
                                 !.check_index = control.check_index + 1]
  /\ CheckAt("tail")
  /\ UNCHANGED ck
  /\ RaceFrame

\* sensor_control.c 102-103
CkInRangeReset ==
  /\ cpc.check = "in_range_reset"
  /\ control' = control_reset_checks(
                  [control EXCEPT !.is_control_active = IF control.is_doser THEN FALSE ELSE @])
  /\ CheckAt("tail")
  /\ UNCHANGED ck
  /\ RaceFrame

\* sensor_control.c 106-107
CkTail ==
  /\ cpc.check = "tail"
  /\ control' = control_check_tail(control).c
  /\ CheckReturns(0)
  /\ RaceFrame

\* sensor_control.c 68-71
DisClearFlags ==
  /\ cpc.disable = "idle"
  /\ control' = [control EXCEPT !.is_control_enabled = FALSE,
                                 !.is_control_active = FALSE,
                                 !.dose_timer.active = FALSE,
                                 !.wait_timer.active = FALSE]
  /\ cpc' = [cpc EXCEPT !.disable = "reset"]
  /\ UNCHANGED ck
  /\ RaceFrame

\* sensor_control.c 74-77
DisReset ==
  /\ cpc.disable = "reset"
  /\ control' = control_reset_checks(control)
  /\ cpc' = [cpc EXCEPT !.disable = "returned"]
  /\ UNCHANGED ck
  /\ RaceFrame

NextCheckDisable ==
  \/ \E v \in Readings : CkEnabledTest(v)
  \/ CkBlockedTest
  \/ CkEvaluate
  \/ CkBranch
  \/ CkAddTest
  \/ CkAddReset
  \/ CkTrigger
  \/ CkAddWrite
  \/ CkInRangeReset
  \/ CkTail
  \/ DisClearFlags
  \/ DisReset

SpecCheckDisable == InitCheckDisable /\ [][NextCheckDisable]_vars

\* ------------------------------------------------------- WiFi reconnection
\* wifi_event_handler (boot.c) and event_handler (TestIDF main.c): the same
\* handler body, registered with the default event loop by connect_wifi and
\* by app_main.  The event loop runs a handler once for every registration
\* that matches the event it dispatches.

RETRYMAX == 5

Programs == {"main", "boot"}

\* esp_event_handler_register calls of app_main (main.c 185-186).
MainRegistrations ==
  <<[base |-> "WIFI_EVENT", id |-> "any"], [base |-> "IP_EVENT", id |-> "got_ip"]>>

\* esp_event_handler_register calls of connect_wifi (boot.c 70-72).
BootRegistrations ==
  <<[base |-> "WIFI_EVENT", id |-> "any"], [base |-> "IP_EVENT", id |-> "got_ip"],
    [base |-> "WIFI_EVENT", id |-> "disconnected"]>>

Registrations(program) == IF program = "boot" THEN BootRegistrations ELSE MainRegistrations

EventBase(ev) == IF ev = "got_ip" THEN "IP_EVENT" ELSE "WIFI_EVENT"

\* The registrations of the program that match the event.
Matching(program, ev) ==
  {i \in 1..Len(Registrations(program)) :
     /\ Registrations(program)[i].base = EventBase(ev)
     /\ Registrations(program)[i].id \in {"any", ev}}

\* One run of the handler; connects counts its esp_wifi_connect calls.
wifi_event_handler(w, ev) ==
  IF ev = "got_ip"
    THEN [w EXCEPT !.retryNumber = 0, !.connected_bit = TRUE]
  ELSE IF ev = "sta_start"
    THEN [w EXCEPT !.retryNumber = 0, !.connects = @ + 1]
  ELSE IF ev = "disconnected"
    THEN IF w.retryNumber < RETRYMAX
           THEN [w EXCEPT !.retryNumber = @ + 1, !.connects = @ + 1]
           ELSE [w EXCEPT !.fail_bit = TRUE]
  ELSE w

RECURSIVE RunHandlers(_, _, _)
\* The handler run n times on the same event.
RunHandlers(w, ev, n) ==
  IF n = 0 THEN w ELSE RunHandlers(wifi_event_handler(w, ev), ev, n - 1)

\* The event loop dispatches the event: connects restarts from 0, and
\* disconnects counts the disconnect events since the last station start or
\* got-IP event.
Dispatch(w, ev) ==
  [RunHandlers([w EXCEPT !.connects = 0], ev, Cardinality(Matching(w.program, ev)))
     EXCEPT !.event = ev,
            !.disconnects = IF ev = "disconnected" THEN Min(@ + 1, RETRYMAX + 2) ELSE 0]

WifiFrame ==
  UNCHANGED <<controlVars, growVars, phase, cycleRun, tempVars, timerVars, raceVars, msg>>

\* connect_wifi (boot.c 63-81) or app_main (main.c 180-197): the handlers are
\* registered and the driver is started.
ConnectWifi(p) ==
  /\ wifi.program = "none"
  /\ wifi' = [WifiOff EXCEPT !.program = p, !.waiter = "waiting"]
  /\ WifiFrame

WifiStaStart ==
  /\ wifi.program # "none"
  /\ wifi' = Dispatch(wifi, "sta_start")
  /\ WifiFrame

WifiGotIp ==
  /\ wifi.program # "none"
  /\ wifi' = Dispatch(wifi, "got_ip")
  /\ WifiFrame

WifiDisconnected ==
  /\ wifi.program # "none"
  /\ wifi' = Dispatch(wifi, "disconnected")
  /\ WifiFrame

\* xEventGroupWaitBits returns to connect_wifi (boot.c 85-97) or to app_main
\* (main.c 199-214) once one of the two bits is set; the connected bit is
\* tested first.
WifiWaitBits ==
  /\ wifi.waiter = "waiting"
  /\ wifi.connected_bit \/ wifi.fail_bit
  /\ wifi' = [wifi EXCEPT !.waiter = IF wifi.connected_bit THEN "connected" ELSE "failed"]
  /\ WifiFrame

NextWifi ==
  \/ \E p \in Programs : ConnectWifi(p)
  \/ WifiWaitBits
  \/ WifiStaStart
  \/ WifiGotIp
  \/ WifiDisconnected

SpecWifi == InitGrow /\ [][NextWifi]_vars

\* ------------------------------------------------- building a message string
\* mqtt_manager.c: create_str, append_str and add_entry, which builds one
\* JSON entry in entry and appends it to data.  malloc and realloc may
\* fail at every call; msg.at is the position within add_entry.

MaxEntries == 2

Names == {"ph", "ec"}

Values == {"6.50", "12.25"}

\* restart_esp32 coming back to its caller.
restart_esp32_Returns(m) == m

\* esp_restart does not return: nothing of the caller runs afterwards.
restart_esp32(m) == [m EXCEPT !.restarted = TRUE]

\* strcpy(*str, src) and strcat(*str, src) into the buffer str (which names
\* the pointer, data or entry) to give the string val; a store through a
\* null pointer is recorded, and so is one past the end of the buffer.
store(m, which, val) ==
  IF m[which].ptr = "null"
    THEN [m EXCEPT !.null_written = TRUE]
    ELSE [m EXCEPT ![which].val = val,
                   !.overflow = @ \/ (Len(val) + 1 > m[which].cap)]

\* *str = malloc / realloc of size bytes, succeeding or not.
allocate(m, which, size, ok) ==
  IF ok THEN [m EXCEPT ![which].ptr = "heap", ![which].cap = size]
        ELSE [m EXCEPT ![which] = NullStr, !.alloc_failed = TRUE]

\* The rest of the function runs only if restart_esp32 came back.
create_str(m, which, init_str, ok) ==
  LET a == allocate(m, which, Len(init_str), ok)
      r == IF a[which].ptr = "null" THEN restart_esp32(a) ELSE a
  IN  IF r.restarted THEN r ELSE store(r, which, init_str)

append_str(m, which, str_to_add, ok) ==
  LET a == allocate(m, which, Len(m[which].val) + Len(str_to_add) + 1, ok)
      r == IF a[which].ptr = "null" THEN restart_esp32(a) ELSE a
  IN  IF r.restarted THEN r ELSE store(r, which, m[which].val \o str_to_add)

MsgFrame ==
  UNCHANGED <<controlVars, growVars, phase, cycleRun, tempVars, timerVars, raceVars, wifi>>

\* The caller of add_entry creates the data string.
MsgCreateData(ok) ==
  /\ msg.at = "idle"
  /\ ~msg.restarted
  /\ msg' = [create_str(msg, "data", "{ \"sensors\": [", ok) EXCEPT !.at = "ready"]
  /\ MsgFrame

\* mqtt_manager.c 82-83
AddEntryComma(ok) ==
  /\ msg.at = "ready"
  /\ ~msg.restarted
  /\ msg.entries < MaxEntries
  /\ msg' = [(IF msg.first THEN [msg EXCEPT !.first = FALSE]
                           ELSE append_str(msg, "data", ",", ok)) EXCEPT !.at = "create"]
  /\ MsgFrame

\* mqtt_manager.c 90-91
AddEntryCreate(ok) ==
  /\ msg.at = "create"
  /\ ~msg.restarted
  /\ msg' = [create_str(msg, "entry", "{ \"name\": \"", ok) EXCEPT !.at = "name"]
  /\ MsgFrame

\* mqtt_manager.c 94
AddEntryName(name, ok) ==
  /\ msg.at = "name"
  /\ ~msg.restarted
  /\ msg' = [append_str(msg, "entry", name, ok) EXCEPT !.at = "separator"]
  /\ MsgFrame

\* mqtt_manager.c 95
AddEntrySeparator(ok) ==
  /\ msg.at = "separator"
  /\ ~msg.restarted
  /\ msg' = [append_str(msg, "entry", "\", \"value\": \"", ok) EXCEPT !.at = "value"]
  /\ MsgFrame

\* mqtt_manager.c 86-87, 96
AddEntryValue(value, ok) ==
  /\ msg.at = "value"
  /\ ~msg.restarted
  /\ msg' = [append_str(msg, "entry", value, ok) EXCEPT !.at = "close"]
  /\ MsgFrame

\* mqtt_manager.c 97
AddEntryClose(ok) ==
  /\ msg.at = "close"
  /\ ~msg.restarted
  /\ msg' = [append_str(msg, "entry", "\"}", ok) EXCEPT !.at = "append"]
  /\ MsgFrame

\* mqtt_manager.c 100
AddEntryAppend(ok) ==
  /\ msg.at = "append"
  /\ ~msg.restarted
  /\ msg' = [append_str(msg, "data", msg.entry.val, ok) EXCEPT !.at = "free"]
  /\ MsgFrame

\* mqtt_manager.c 103-104
AddEntryFree ==
  /\ msg.at = "free"
  /\ ~msg.restarted
  /\ msg' = [msg EXCEPT !.entry = NullStr, !.entries = @ + 1, !.at = "ready"]
  /\ MsgFrame

\* The controller has restarted: nothing of the message is left.
MsgRestarted ==
  /\ msg.restarted
  /\ msg' = [NoMsg EXCEPT !.rebooted = TRUE]
  /\ MsgFrame

NextMsg ==
  \/ \E ok \in BOOLEAN : MsgCreateData(ok)
  \/ \E ok \in BOOLEAN : AddEntryComma(ok)
  \/ \E ok \in BOOLEAN : AddEntryCreate(ok)
  \/ \E name \in Names, ok \in BOOLEAN : AddEntryName(name, ok)
  \/ \E ok \in BOOLEAN : AddEntrySeparator(ok)
  \/ \E value \in Values, ok \in BOOLEAN : AddEntryValue(value, ok)
  \/ \E ok \in BOOLEAN : AddEntryClose(ok)
  \/ \E ok \in BOOLEAN : AddEntryAppend(ok)
  \/ AddEntryFree
  \/ MsgRestarted

SpecMsg == InitGrow /\ [][NextMsg]_vars

\* ================================================================ claims

\* C1: in a run of consecutive out-of-range check() calls that starts from an
\* enabled control with counter 0 and no timer active, the first NUM_CHECKS-1
\* calls return NoAction and the NUM_CHECKS-th call returns a request, resets
\* the counter to 0 and sets active.
C1_RequestOnNumChecksthCall ==
  (lastOp = "check" /\ runLen \in 1..NUM_CHECKS) =>
     IF runLen < NUM_CHECKS
       THEN ret = 0
       ELSE ret # 0 /\ control.check_index = 0 /\ control.is_control_active

C3_DisabledCheckNoOp ==
  [][(CheckStep /\ ~control.is_control_enabled) =>
        (ret' = 0 /\ control' = control)]_vars

C3_Witness ==
  /\ lastOp = "check"
  /\ ~control.is_control_enabled
  /\ OutOfRange(control, lastArg)
  /\ control.dose_timer.active
  /\ ret = 0

\* C4: as long as every reading since initialisation lay within
\* [target - margin, target + margin] of the selected target, every check()
\* returned NoAction and the debounce counter is 0.
C4_InRangeNeverCounts ==
  (allInRange /\ lastOp = "check") => (ret = 0 /\ control.check_index = 0)

C4_Witness ==
  /\ allInRange
  /\ lastOp = "check"
  /\ control.is_control_enabled
  /\ lastArg = SelectedTarget(control) + control.margin_error

\* C5: a check() that evaluates a reading within the margin leaves the
\* counter at 0 and returns NoAction; if the counter was above 0 and the
\* control is a doser, active is false afterwards.
C5_InRangeResetsCounter ==
  [][(CheckStep /\ Evaluated(control) /\ WithinMargin(control, lastArg')) =>
        (/\ control'.check_index = 0
         /\ ret' = 0
         /\ ((control.check_index > 0 /\ control.is_doser) =>
                ~control'.is_control_active))]_vars

C5_Witness ==
  /\ lastOp = "check"
  /\ control.is_control_enabled
  /\ control.is_doser
  /\ WithinMargin(control, lastArg)
  /\ prevIndex > 0
  /\ control.check_index = 0
  /\ ~control.is_control_active

\* C6: for a non-doser, active is false after every check() call, the call
\* that returns a request included.
C6_NonDoserNeverActiveAfterCheck ==
  (lastOp = "check" /\ ~control.is_doser) => ~control.is_control_active

\* C7: a returned request is RequestLower (-1) when the triggering sample is
\* under target - margin and RequestRaise (+1) when it is over target + margin,
\* whatever the earlier samples were; every evaluated out-of-range sample short
\* of the trigger advances the one counter, under or over alike.
C7_DirectionOfLastSample ==
  [][CheckStep =>
        (/\ (ret' # 0) =>
               (OutOfRange(control, lastArg') /\ ret' = Direction(control, lastArg'))
         /\ (Evaluated(control) /\ OutOfRange(control, lastArg') /\ ret' = 0) =>
               (control'.check_index = control.check_index + 1))]_vars

C7_Witness ==
  /\ lastOp = "check"
  /\ ret = 1
  /\ runDirs = {-1, 1}
  /\ Direction(control, lastArg) = 1

\* C8: disable() in any state leaves enabled = false, active = false, both
\* timers disarmed and the counter 0, keeps the configuration, and a second
\* disable() changes nothing more.
C8_DisableClearsAndIsIdempotent ==
  [][Disable =>
        (/\ ~control'.is_control_enabled
         /\ ~control'.is_control_active
         /\ ~control'.dose_timer.active
         /\ ~control'.wait_timer.active
         /\ control'.check_index = 0
         /\ Config(control') = Config(control)
         /\ control_disable(control') = control')]_vars

C8_Witness ==
  /\ lastOp = "disable"
  /\ control.is_doser
  /\ control.wait_timer.duration # 0
  /\ ~control.is_control_enabled
  /\ ~TimerActive(control)

\* C9: start_grow_cycle() with settings_received false only logs: grow_active
\* keeps its value, nothing is persisted, no task is resumed, nothing restarts.
C9_StartWithoutSettingsNoOp ==
  [][(StartGrowCycle /\ ~is_settings_received) =>
        (/\ is_grow_active' = is_grow_active
         /\ is_settings_received' = is_settings_received
         /\ nvs' = nvs
         /\ task_state' = task_state
         /\ \A i \in 1..Len(calls') : calls'[i].op = "ESP_LOGE")]_vars

C9_Witness ==
  /\ gLastOp = "start_grow_cycle"
  /\ ~is_settings_received
  /\ ~is_grow_active
  /\ AllTasks("suspended")
  /\ nvs.grow_active = {0}
  /\ Len(calls) = 1

\* C10: start_grow_cycle() with settings_received true sets grow_active,
\* persists grow_active = true and resumes each of the seven owned tasks.
C10_StartResumesAll ==
  [][(StartGrowCycle /\ is_settings_received) =>
        (/\ is_grow_active'
         /\ nvs'.grow_active = {1}
         /\ \A t \in Tasks : task_state'[t] = "running"
         /\ \A t \in Tasks : \E i \in 1..Len(calls') : calls'[i] = Call("vTaskResume", t))]_vars

C10_Witness ==
  /\ gLastOp = "start_grow_cycle"
  /\ is_settings_received
  /\ is_grow_active
  /\ nvs.grow_active = {1}
  /\ AllTasks("running")
  /\ Len(calls) = 8

\* Positions of the calls with the given op in the log of the last operation.
CallsAt(op) == {i \in 1..Len(calls) : calls[i].op = op}

\* C11: within one stop_grow_cycle() call grow_active is set false and
\* persisted first, then the seven tasks are suspended, then comes the settle
\* delay, and only after it any hibernate of the pH or EC device.
C11_StopOrder ==
  (gLastOp = "stop_grow_cycle") =>
     /\ ~is_grow_active
     /\ nvs.grow_active = {0}
     /\ calls[1] = Call("nvs_commit", "grow_active")
     /\ \A t \in Tasks : \E i \in 2..8 : calls[i] = Call("vTaskSuspend", t)
     /\ CallsAt("vTaskSuspend") = 2..8
     /\ CallsAt("vTaskDelay") = {9}
     /\ \A i \in CallsAt("hibernate") : i > 9

C11_Witness ==
  /\ gLastOp = "stop_grow_cycle"
  /\ gPrev.is_grow_active
  /\ Len(calls) = 11
  /\ calls[10] = Call("hibernate", "ph")
  /\ calls[11] = Call("hibernate", "ec")

Stopped(g) ==
  /\ ~g.is_grow_active
  /\ g.nvs.grow_active = {0}
  /\ \A t \in Tasks : g.task_state[t] = "suspended"
  /\ ~g.is_ph_activated
  /\ ~g.is_ec_activated

\* C13: a stop_grow_cycle call that directly follows a stop_grow_cycle call
\* leaves grow_active (false), the persisted flags, the task states (all seven
\* suspended) and the actuator flags as the first call left them, and it
\* hibernates nothing.
C13_StopIdempotent ==
  [][(gLastOp = "stop_grow_cycle" /\ StopGrowCycle) =>
        (/\ Stopped(GrowState)
         /\ UNCHANGED <<is_settings_received, is_grow_active, nvs, task_state,
                        is_ph_activated, is_ec_activated>>
         /\ CallsAt("hibernate")' = {})]_vars

C13_Witness ==
  /\ gLastOp = "stop_grow_cycle"
  /\ Stopped(gPrev)
  /\ Stopped(GrowState)
  /\ Len(calls) = 9

\* The persisted flag is absent or zero.
Unset(flag) == flag = {} \/ flag = {0}

\* C14: init_grow_manager on a store whose settings-received flag is absent
\* or zero leaves settings_received false, runs stop_grow_cycle (grow_active
\* false and persisted, all seven tasks suspended), and returns without
\* loading sensor settings, without persisting the settings flag and without
\* resuming any task, whatever the persisted grow_active flag is.
C14_InitWithoutSettingsStops ==
  [][(InitGrowManager /\ Unset(nvs.settings_received)) =>
        (/\ ~is_settings_received'
         /\ ~is_grow_active'
         /\ nvs'.grow_active = {0}
         /\ nvs'.settings_received = nvs.settings_received
         /\ AllTasks("suspended")'
         /\ calls'[1] = Call("nvs_commit", "grow_active")
         /\ CallsAt("vTaskSuspend")' = 2..8
         /\ CallsAt("get_nvs_settings")' = {}
         /\ CallsAt("vTaskResume")' = {}
         /\ \A i \in CallsAt("nvs_commit")' : calls'[i].arg = "grow_active")]_vars

C14_Witness ==
  /\ gLastOp = "init_grow_manager"
  /\ Unset(gPrev.nvs.settings_received)
  /\ gPrev.nvs.grow_active = {1}
  /\ ~is_settings_received
  /\ ~is_grow_active
  /\ AllTasks("suspended")

\* C15: with settings received, start_grow_cycle persists grow_active = 1 and
\* stop_grow_cycle persists 0; init_grow_manager on a store holding the
\* settings flag and grow_active = 1 ends with grow_active true and all seven
\* tasks running, and on a store holding grow_active = 0 it ends with
\* grow_active false, all seven tasks suspended and no device marked activated.
C15_PersistedFlagRoundTrip ==
  [][/\ (StartGrowCycle /\ is_settings_received) => (nvs'.grow_active = {1})
     /\ StopGrowCycle => (nvs'.grow_active = {0})
     /\ (InitGrowManager /\ nvs.settings_received = {1} /\ nvs.grow_active = {1}) =>
           (is_grow_active' /\ AllTasks("running")' /\ nvs'.grow_active = {1})
     /\ (InitGrowManager /\ nvs.settings_received = {1} /\ nvs.grow_active = {0}) =>
           (/\ ~is_grow_active'
            /\ AllTasks("suspended")'
            /\ ~is_ph_activated'
            /\ ~is_ec_activated'
            /\ nvs'.grow_active = {0})]_vars

C15_Witness ==
  /\ gLastOp = "init_grow_manager"
  /\ gPrev.nvs.settings_received = {1}
  /\ gPrev.nvs.grow_active = {1}
  /\ ~gPrev.is_grow_active
  /\ ~gPrev.is_settings_received
  /\ is_grow_active
  /\ AllTasks("running")
  /\ CallsAt("vTaskResume") # {}

\* C16: settings_received sets the flag in memory and persists it as 1 and
\* changes neither grow_active (in memory or persisted) nor the state of any
\* task; from then on the flag stays set until an init_grow_manager on a
\* store lacking the flag or a reboot, and every start_grow_cycle issued while
\* it is set ends with grow_active true and all seven tasks running.
C16_SettingsReceivedEnablesStart ==
  [][/\ SettingsReceived =>
           (/\ is_settings_received'
            /\ nvs'.settings_received = {1}
            /\ nvs'.grow_active = nvs.grow_active
            /\ UNCHANGED <<is_grow_active, task_state>>)
     /\ (/\ is_settings_received
         /\ ~(InitGrowManager /\ Unset(nvs.settings_received))
         /\ ~Reboot) => is_settings_received'
     /\ (StartGrowCycle /\ is_settings_received) =>
           (is_grow_active' /\ AllTasks("running")')]_vars

C16_Witness ==
  /\ gLastOp = "start_grow_cycle"
  /\ ~gInited
  /\ gPrev.is_settings_received
  /\ nvs.settings_received = {1}
  /\ ~gPrev.is_grow_active
  /\ \A t \in Tasks : gPrev.task_state[t] = "suspended"
  /\ is_grow_active
  /\ AllTasks("running")

\* C17: with start_grow_cycle and settings_received running in other tasks
\* while stop_grow_cycle is under way, all seven tasks are suspended at each
\* moment stop_grow_cycle hibernates a device and at the moment it returns.
C17_StopLeavesTasksSuspended ==
  [][/\ (StopHibernatePh /\ is_ph_activated) => AllTasks("suspended")
     /\ (StopHibernateEc /\ is_ec_activated) => AllTasks("suspended")
     /\ StopHibernateEc => AllTasks("suspended")']_vars

Max(a, b) == IF a > b THEN a ELSE b

\* C18: start_wait arms wait_timer for
\* max(0, wait_time - NUM_CHECKS * sample period in seconds); when wait_time is
\* shorter than the debounce period the armed duration is 0.
C18_WaitDurationClamped ==
  (lastOp = "start_wait") =>
     /\ control.wait_timer.active
     /\ control.wait_timer.duration =
          Max(0, control.wait_time - NUM_CHECKS * (SENSOR_MEASUREMENT_PERIOD \div 1000))

\* C19: start_dose arms dose_timer for dose_time * dose_percentage with the
\* percentage then stored; the stored percentage is the one of the latest
\* set_dose_percentage, or the 1.0 of init_doser_control, no other operation
\* changing it; set_dose_percentage arms no timer and leaves an armed dose
\* timer as it is.
C19_DoseUsesStoredPercentage ==
  [][/\ StartDose =>
           (/\ control'.dose_timer.active
            /\ control'.dose_timer.duration * 100 = control.dose_time * control.dose_percentage
            /\ control'.dose_percentage = control.dose_percentage)
     /\ \A p \in DosePercentages : SetDosePercentage(p) =>
           (/\ control'.dose_percentage = p
            /\ control'.dose_timer = control.dose_timer
            /\ control'.wait_timer = control.wait_timer)
     /\ \A dt \in DoseTimes, wt \in WaitTimes : InitDoser(dt, wt) =>
           (control'.dose_percentage = 100)
     /\ (lastOp' \notin {"set_dose_percentage", "init_doser"}) =>
           (control'.dose_percentage = control.dose_percentage)]_vars

C19_Witness ==
  /\ lastOp = "start_dose"
  /\ control.dose_percentage = 50
  /\ control.dose_time = 10
  /\ control.dose_timer.active
  /\ control.dose_timer.duration = 5

\* C20: control_get_target_value returns night_target_value when day/night is
\* active and is_day is false, and target_value in the three other
\* combinations; an evaluated check counts or reports a reading exactly when
\* it lies outside the margin around the value so resolved at the call, and
\* reports it as under or over with respect to that value.
C20_ResolvedTargetUsedByCheck ==
  [][/\ (control.is_day_night_active /\ ~is_day) =>
           (control_get_target_value(control) = control.night_target_value)
     /\ (control.is_day_night_active /\ is_day) =>
           (control_get_target_value(control) = control.target_value)
     /\ (~control.is_day_night_active /\ ~is_day) =>
           (control_get_target_value(control) = control.target_value)
     /\ (~control.is_day_night_active /\ is_day) =>
           (control_get_target_value(control) = control.target_value)
     /\ (CheckStep /\ Evaluated(control)) =>
           LET resolved == IF control.is_day_night_active /\ ~is_day
                             THEN control.night_target_value
                             ELSE control.target_value
               under == lastArg' < resolved - control.margin_error
               over == lastArg' > resolved + control.margin_error
           IN  /\ (under \/ over) <=>
                     (ret' # 0 \/ control'.check_index = control.check_index + 1)
               /\ (ret' = -1) => under
               /\ (ret' = 1) => over]_vars

C20_Witness ==
  /\ lastOp = "check"
  /\ ~is_day
  /\ control.is_day_night_active
  /\ control.night_target_value = 3
  /\ control.target_value = 4
  /\ lastArg = 5
  /\ control.check_index = prevIndex + 1

\* C21: init_sensor_control, whatever state it is called in, leaves the
\* debounce counter 0, active false and both dose_timer and wait_timer
\* disarmed.
C21_InitResetsRuntimeState ==
  (lastOp = "init") =>
     /\ control.check_index = 0
     /\ ~control.is_control_active
     /\ ~control.dose_timer.active
     /\ ~control.wait_timer.active

\* C22: in every reachable state of a doser, dose_timer active or wait_timer
\* active implies active = true.
C22_TimerActiveImpliesActive ==
  (control.is_doser /\ TimerActive(control)) => control.is_control_active

\* C23: once the wait timer of a dose cycle has run out, a run of NUM_CHECKS
\* consecutive out-of-range samples produces a new request.
C23_RequestAfterCycle ==
  (lastOp = "check" /\ cycleRun = NUM_CHECKS) => ret # 0

\* C27: between the check call that returns a request and the expiry of the
\* wait timer armed for that request, every check call returns NoAction.
C27_NoRequestWhileCycleOpen ==
  [][(lastOp' = "check" /\ CycleOpen) => (ret' = 0)]_vars

\* C24: every store into the shared reading by the sampling task and every
\* read of it by the publishing task is made while that task holds the
\* reading's mutex, and no read falls into a store under way.
C24_ReadingAccessUnderMutex ==
  [][/\ (SampleConvertBegin \/ SampleConvertEnd) => (temp_semaphore.holder = "sampler")
     /\ PublishFormat => (temp_semaphore.holder = "publisher" /\ ~writing)]_vars

\* C25: start_dose (start_wait) called while its timer is armed replaces the
\* arming: the timer then runs from the time of the latest call for the newly
\* computed duration, it is not cleared before that time has passed, and it
\* runs out once for all the armings made since it last ran out.
C25_RearmReplaces ==
  [][/\ TimerStartDose =>
           (/\ control'.dose_timer.active
            /\ control'.dose_timer.duration * 100 = control.dose_time * control.dose_percentage
            /\ arming'.dose.armed_at = now)
     /\ TimerStartWait =>
           (/\ control'.wait_timer.active
            /\ control'.wait_timer.duration =
                 control.wait_time - NUM_CHECKS * (SENSOR_MEASUREMENT_PERIOD \div 1000)
            /\ arming'.wait.armed_at = now)
     /\ (control.dose_timer.active /\ ~control'.dose_timer.active) =>
           (/\ now >= arming.dose.armed_at + control.dose_timer.duration
            /\ arming'.dose.fired = 1)
     /\ (control.wait_timer.active /\ ~control'.wait_timer.active) =>
           (/\ now >= arming.wait.armed_at + control.wait_timer.duration
            /\ arming'.wait.fired = 1)]_vars

C25_Witness ==
  /\ ~control.dose_timer.active
  /\ arming.dose.arms = 2
  /\ arming.dose.fired = 1
  /\ arming.dose.armed_at = 3
  /\ control.dose_timer.duration = 5
  /\ now = 8

\* C26: in every reachable state check_index lies in 0..NUM_CHECKS and the
\* sensor_checks array has its NUM_CHECKS elements; every check call that
\* records a sample writes sensor_checks at an index in 0..NUM_CHECKS-1.
C26_CheckIndexInBounds ==
  [][/\ control.check_index \in 0..NUM_CHECKS
     /\ DOMAIN control.sensor_checks = 0..(NUM_CHECKS - 1)
     /\ (CheckStep /\ control'.check_index # 0 /\ control'.check_index # control.check_index) =>
           (/\ control.check_index \in 0..(NUM_CHECKS - 1)
            /\ control'.check_index = control.check_index + 1
            /\ control'.sensor_checks = [control.sensor_checks EXCEPT ![control.check_index] = TRUE])]_vars

C26_Witness ==
  /\ lastOp = "check"
  /\ prevIndex = NUM_CHECKS - 1
  /\ control.check_index = NUM_CHECKS
  /\ \A i \in 0..(NUM_CHECKS - 1) : control.sensor_checks[i]

\* C28: for every interleaving of a check call and a disable call on the same
\* control, once both have returned the control has enabled false, active
\* false, counter 0 and both timers disarmed, and check has not returned a
\* request after disable had returned.
C28_DisableSafeAgainstCheck ==
  (cpc.check = "returned" /\ cpc.disable = "returned") =>
     /\ ~control.is_control_enabled
     /\ ~control.is_control_active
     /\ control.check_index = 0
     /\ ~control.dose_timer.active
     /\ ~control.wait_timer.active
     /\ ~(ck.late /\ ck.ret # 0)

\* The devices hibernated by the calls logged in the sequence cs.
Hibernated(cs) == {cs[i].arg : i \in {j \in 1..Len(cs) : cs[j].op = "hibernate"}}

\* C29: a stop_grow_cycle call hibernates the pH device exactly when the
\* device is marked activated as the call reaches the hibernate step, and
\* likewise the EC device; when the call returns neither device is marked
\* activated; no other device (the water-temperature control has none) is
\* hibernated, and each device is hibernated at most once.
C29_StopHibernatesActivated ==
  [][StopGrowCycle =>
        (/\ ("ph" \in Hibernated(calls')) <=> is_ph_activated
         /\ ("ec" \in Hibernated(calls')) <=> is_ec_activated
         /\ ~is_ph_activated'
         /\ ~is_ec_activated'
         /\ Hibernated(calls') \subseteq {"ph", "ec"}
         /\ Cardinality(CallsAt("hibernate")') = Cardinality(Hibernated(calls')))]_vars

C29_Witness ==
  /\ gLastOp = "stop_grow_cycle"
  /\ gPrev.is_ph_activated
  /\ ~gPrev.is_ec_activated
  /\ Hibernated(calls) = {"ph"}
  /\ ~is_ph_activated
  /\ ~is_ec_activated

\* The settings loaded by the calls logged before position i of the sequence cs.
LoadedBefore(cs, i) ==
  {cs[j].arg : j \in {k \in 1..(i - 1) : cs[k].op = "get_nvs_settings"}}

\* C30: in an init_grow_manager call every vTaskResume comes after the loading
\* of the persisted pH, EC and water-temperature settings and after the
\* settings flag has been set and persisted; a call that finds the settings
\* flag persisted does those four things first, in that order.
C30_InitLoadsBeforeResume ==
  [][InitGrowManager =>
        (/\ \A i \in CallsAt("vTaskResume")' :
               /\ LoadedBefore(calls', i) = {"ph", "ec", "water_temp"}
               /\ \E j \in 1..(i - 1) : calls'[j] = Call("nvs_commit", "settings_received")
         /\ CallsAt("vTaskResume")' # {} => is_settings_received'
         /\ ~Unset(nvs.settings_received) =>
               (/\ SubSeq(calls', 1, 4) =
                      <<Call("get_nvs_settings", "ph"), Call("get_nvs_settings", "ec"),
                        Call("get_nvs_settings", "water_temp"),
                        Call("nvs_commit", "settings_received")>>
                /\ is_settings_received'
                /\ nvs'.settings_received = {1}))]_vars

C30_Witness ==
  /\ gLastOp = "init_grow_manager"
  /\ ~gPrev.is_settings_received
  /\ gPrev.nvs.settings_received = {1}
  /\ Len(calls) = 12
  /\ calls[3] = Call("get_nvs_settings", "water_temp")
  /\ calls[4] = Call("nvs_commit", "settings_received")
  /\ calls[6] = Call("vTaskResume", "timer_alarm")
  /\ calls[12] = Call("vTaskResume", "sync")
  /\ is_settings_received

\* The positions at which a task sleeps in vTaskDelay or waits for its
\* notification.
SamplerWaits == {"read_rom", "error_delay", "delay", "not_working"}

PublisherWaits == {"wait_notify", "delay"}

\* C31: neither task holds the reading's mutex while it sleeps or waits for
\* its notification, and under fair scheduling every xSemaphoreTake a task
\* reaches succeeds: the call is made in the end, and it returns with the
\* mutex held, the sampling task going on to its printf and the publishing
\* task to its publish.
C31_MutexNotHeldAcrossWait ==
  /\ [](tpc.sampler \in SamplerWaits => temp_semaphore.holder # "sampler")
  /\ [](tpc.publisher \in PublisherWaits => temp_semaphore.holder # "publisher")
  /\ [][SampleTake => (tpc'.sampler = "print" /\ temp_semaphore'.holder = "sampler")]_vars
  /\ [][PublishTake => (tpc'.publisher = "publish" /\ temp_semaphore'.holder = "publisher")]_vars
  /\ (tpc.sampler = "take") ~> (tpc.sampler # "take")
  /\ (tpc.publisher = "take") ~> (tpc.publisher # "take")

\* C37: in every interleaving of the two tasks no xSemaphoreTake runs before
\* xSemaphoreCreateMutex has returned, and the publishing task takes the
\* mutex and publishes only after MQTT_EVENT_CONNECTED has notified it.
C37_MutexCreatedBeforeUse ==
  [][/\ (SampleTake \/ PublishTake) => temp_semaphore.created
     /\ (PublishTake \/ PublishSend) => connected]_vars

\* C32: once init_doser_control has marked the control as a doser, no later
\* operation on it (check, enable, disable, start_dose, start_wait,
\* set_dose_percentage, a timer running out, or init_sensor_control run again
\* for a settings reload) makes is_doser false.
C32_DoserModeFixed ==
  [][control.is_doser => control'.is_doser]_vars

\* C38: every init_doser_control call stores the dose percentage 1.0 (100
\* hundredths), whatever percentage was stored before; no operation other
\* than set_dose_percentage moves it off 1.0; and a start_dose at percentage
\* 1.0 arms dose_timer for exactly dose_time.
C38_InitDoserFullDose ==
  [][/\ \A dt \in DoseTimes, wt \in WaitTimes : InitDoser(dt, wt) =>
           (/\ control'.dose_percentage = 100
            /\ control'.dose_time = dt
            /\ control'.is_doser)
     /\ (control.dose_percentage = 100 /\ lastOp' # "set_dose_percentage") =>
           (control'.dose_percentage = 100)
     /\ (StartDose /\ control.dose_percentage = 100) =>
           (/\ control'.dose_timer.active
            /\ control'.dose_timer.duration = control.dose_time)]_vars

C38_Witness ==
  /\ lastOp = "start_dose"
  /\ control.is_doser
  /\ control.dose_percentage = 100
  /\ control.dose_time = 10
  /\ control.dose_timer.active
  /\ control.dose_timer.duration = control.dose_time

\* The persisted flag as init_grow_manager reads it: true when present and
\* nonzero.
PersistedTrue(flag) == flag = {1}

C34_ActiveImpliesSettings ==
  /\ is_grow_active => is_settings_received
  /\ PersistedTrue(nvs.grow_active) => PersistedTrue(nvs.settings_received)

C34_Witness ==
  /\ gLastOp = "power_cycle"
  /\ gPrev.is_grow_active
  /\ is_grow_active
  /\ is_settings_received
  /\ nvs.grow_active = {1}
  /\ nvs.settings_received = {1}
  /\ AllTasks("running")

\* C35: stop_grow_cycle changes neither is_settings_received nor the persisted
\* settings flag nor the sensor control, and a start_grow_cycle issued right
\* after a stop_grow_cycle that found the settings received ends with
\* grow_active true and all seven tasks resumed.
C35_StopKeepsSettings ==
  [][/\ StopGrowCycle =>
           (/\ is_settings_received' = is_settings_received
            /\ nvs'.settings_received = nvs.settings_received
            /\ control' = control)
     /\ (gLastOp = "stop_grow_cycle" /\ gPrev.is_settings_received /\ StartGrowCycle) =>
           (/\ is_grow_active'
            /\ nvs'.grow_active = {1}
            /\ AllTasks("running")'
            /\ Cardinality(CallsAt("vTaskResume")') = Cardinality(Tasks))]_vars

C35_Witness ==
  /\ gLastOp = "start_grow_cycle"
  /\ gInited
  /\ Stopped(gPrev)
  /\ gPrev.is_settings_received
  /\ is_grow_active
  /\ AllTasks("running")
  /\ Len(calls) = 8

\* C36: retryNumber stays in 0..RETRYMAX; a disconnect event makes one
\* reconnect attempt and increments the counter when the counter is below
\* RETRYMAX, and otherwise sets the FAIL bit and does neither; station start
\* and got-IP reset the counter to 0; and the FAIL bit is first set only when
\* RETRYMAX reconnect attempts in a row have each ended in a disconnect, that
\* is on disconnect number RETRYMAX + 1 since the counter was last reset.
C36_RetryCounterBounded ==
  [][/\ wifi'.retryNumber \in 0..RETRYMAX
     /\ (WifiDisconnected /\ wifi.retryNumber < RETRYMAX) =>
           (/\ wifi'.retryNumber = wifi.retryNumber + 1
            /\ wifi'.connects = 1
            /\ wifi'.fail_bit = wifi.fail_bit)
     /\ (WifiDisconnected /\ wifi.retryNumber >= RETRYMAX) =>
           (/\ wifi'.retryNumber = wifi.retryNumber
            /\ wifi'.connects = 0
            /\ wifi'.fail_bit)
     /\ (WifiStaStart \/ WifiGotIp) => (wifi'.retryNumber = 0)
     /\ (~wifi.fail_bit /\ wifi'.fail_bit) => (wifi'.disconnects > RETRYMAX)]_vars

\* C39: when malloc in create_str or realloc in append_str fails,
\* restart_esp32 is invoked, nothing is copied into or concatenated onto the
\* null buffer, and no further string operation runs before the restart.
C39_AllocFailureRestarts ==
  [][/\ msg'.alloc_failed => msg'.restarted
     /\ ~msg'.null_written
     /\ msg.restarted => (msg' = [NoMsg EXCEPT !.rebooted = TRUE])]_vars

C39_Witness ==
  /\ msg.alloc_failed
  /\ msg.restarted
  /\ msg.at = "separator"
  /\ msg.entry = NullStr
  /\ msg.data.ptr = "heap"
  /\ ~msg.null_written

====
